---- MODULE Spec2Model ----
(***************************************************************************)
(* Click_Config (gedit plugin), src/trunk/click_config.py.                 *)
(*                                                                         *)
(* The multi-click classifier of ClickConfigWindowHelper                   *)
(* (_handle_1button_press, _handle_2button_press, _handle_3button_press    *)
(* over _time_of_last_click), the span search _find_text, the selection    *)
(* _select_regex built on it, and the connection of the press handler to   *)
(* the views of the window (update_ui).                                    *)
(*                                                                         *)
(* Time is counted in ticks.  A timestamp is what time.time() returned for *)
(* the press; the wall clock is not monotonic, so the general              *)
(* specification Spec hands every entry point any timestamp of 0..MaxTime. *)
(* Two presses less than a tick apart have the same timestamp (a gap of 0).*)
(* Python's None for "no click" is written NoClick (0).                    *)
(***************************************************************************)
EXTENDS Integers, Sequences, FiniteSets, TLC

\* ------------------------------------------------------------- bounds

\* Largest timestamp handed to an entry point under Spec.
MaxTime == 4

\* Presses of one run under SpecSeq.
MaxPresses == 6

\* Physical clicks of one run under SpecHost.
MaxClicks == 8

\* Longest source_text handed to _find_text under SpecFind.
MaxLen == 4

\* Largest value of pos from which _find_text's loop is still run.
MaxPos == 6

\* Presses of one run under SpecViews.
ViewPresses == 3

\* Longest document under SpecSelect.
DocLen == 3

\* Longest source_text and number of presses under SpecPure.
PureLen == 2

PurePresses == 1

\* Longest document and number of events under SpecPress.
EventLen == 1

EventPresses == 2

\* ---------------------------------------------------- program values

\* self._double_click_time (gtk-double-click-time, in ticks).
double_click_time == 2

\* click = None
NoClick == 0

Levels == 1..5

Times == 0..MaxTime

Kinds == {"single", "double", "triple"}

VARIABLES
    time_of_last_click,   \* self._time_of_last_click[1..5]
    last,                 \* the last press: its kind, timestamp, result, and
                          \* the slots and the recorded levels before it
    recorded,             \* the levels whose slot has been written so far
    clock,                \* time.time(), where a specification lets it run
    presses,              \* SpecSeq: the presses so far, with their results
    host_count,           \* SpecHost: the toolkit's consecutive-click count
    pending,              \* SpecHost: events of the current physical click
                          \* not yet delivered
    click_no,             \* SpecHost: physical clicks so far
    emitted,              \* SpecHost: events of the current physical click
                          \* that emitted a level
    rapid,                \* SpecHost: every click so far came within the
                          \* interval of the one before it
    chain,                \* SpecHost: some press of the current rapid
                          \* sequence, the last included, emitted level 5
    after_five,           \* SpecHost: the last press came within the interval
                          \* of the press before it, in a rapid sequence in
                          \* which level 5 had been emitted
    source_text,          \* _find_text: its arguments
    pick_pos,
    word_re,
    pos,                  \* _find_text: its locals
    found,
    match_start,
    match_end,
    pc,                   \* _find_text: "idle" (no call), "loop" (at the
                          \* while test), "done" (returned)
    searches,             \* _find_text: calls of word_re.search so far
    returned,             \* _find_text: what the call before this one
                          \* returned, <<>> when there was none
    mouse_handler_ids_per_view,
                          \* self._mouse_handler_ids_per_view: the handler
                          \* id of each connected view
    last_view,            \* the view of the last press
    own_slots,            \* per view: the slots of a classifier that had
                          \* seen the presses of this view only
    own_result,           \* what that classifier returns for the last press
    conf,                 \* self._plugin.conf: the op a selection uses
    document,             \* the text of the active document
    click_iter,           \* the document offset of the click
    multiline,            \* _select_regex: bool(flags & re.MULTILINE)
    selected_range,       \* the range handed to doc.select_range by the
                          \* current selection, <<>> when none
    handler_count,        \* per view: the handlers connected to its
                          \* button_press_event
    handlers_per_viewport,
                          \* self._handlers_per_viewport holds the Viewport
    op_names,             \* the op names of the current configset, by level
    handled,              \* what the last handler returned
    event                 \* the last button_press_event: its button and
                          \* type, and the slots before it

clickVars == <<time_of_last_click, last, recorded>>

hostVars == <<host_count, pending, click_no, emitted, rapid, chain, after_five>>

findVars == <<source_text, pick_pos, word_re, pos, found, match_start,
              match_end, pc, searches, returned>>

viewVars == <<mouse_handler_ids_per_view, last_view, own_slots, own_result,
              handler_count, handlers_per_viewport>>

selectVars == <<conf, document, click_iter, multiline, selected_range>>

eventVars == <<op_names, handled, event>>

vars == <<time_of_last_click, last, recorded, clock, presses, host_count,
          pending, click_no, emitted, rapid, chain, after_five,
          source_text, pick_pos, word_re, pos, found, match_start,
          match_end, pc, searches, returned, mouse_handler_ids_per_view,
          last_view, own_slots, own_result, conf, document, click_iter,
          multiline, selected_range, handler_count, handlers_per_viewport,
          op_names, handled, event>>

\* self._time_of_last_click = [None, 0, 0, 0, 0, 0]
InitialSlots == [L \in Levels |-> 0]

NoPress ==
    [kind |-> "none", now |-> 0, handled |-> FALSE, click |-> NoClick,
     before |-> InitialSlots, recorded |-> {}]

\* What one entry point leaves behind: the slots, and the pair it returns.
Outcome(kind, now, slots, eaten, click) ==
    /\ time_of_last_click' = slots
    /\ last' = [kind |-> kind, now |-> now, handled |-> eaten,
                click |-> click, before |-> time_of_last_click,
                recorded |-> recorded]
    /\ recorded' = IF click = NoClick THEN recorded ELSE recorded \cup {click}

\* _handle_1button_press with the checks in the order 1, 2, 3, 4.
handle_1button_press_shortest_first(now) ==
    IF now - time_of_last_click[1] < double_click_time THEN
        Outcome("single", now, time_of_last_click, TRUE, NoClick)
    ELSE IF now - time_of_last_click[2] < double_click_time THEN
        Outcome("single", now, time_of_last_click, TRUE, NoClick)
    ELSE IF now - time_of_last_click[3] < double_click_time THEN
        Outcome("single", now, [time_of_last_click EXCEPT ![4] = now], FALSE, 4)
    ELSE IF now - time_of_last_click[4] < double_click_time THEN
        Outcome("single", now, [time_of_last_click EXCEPT ![5] = now], FALSE, 5)
    ELSE
        Outcome("single", now, [time_of_last_click EXCEPT ![1] = now], FALSE, 1)

\* _handle_1button_press that writes slot 1 also when it eats the press.
handle_1button_press_refreshing(now) ==
    IF now - time_of_last_click[4] < double_click_time THEN
        Outcome("single", now, [time_of_last_click EXCEPT ![5] = now], FALSE, 5)
    ELSE IF now - time_of_last_click[3] < double_click_time THEN
        Outcome("single", now, [time_of_last_click EXCEPT ![4] = now], FALSE, 4)
    ELSE IF now - time_of_last_click[2] < double_click_time THEN
        Outcome("single", now, [time_of_last_click EXCEPT ![1] = now], TRUE,
                NoClick)
    ELSE IF now - time_of_last_click[1] < double_click_time THEN
        Outcome("single", now, [time_of_last_click EXCEPT ![1] = now], TRUE,
                NoClick)
    ELSE
        Outcome("single", now, [time_of_last_click EXCEPT ![1] = now], FALSE, 1)

\* _handle_1button_press(now): detect 5-click, 4-click or 1-click, otherwise
\* eat the signal.
handle_1button_press(now) ==
    IF now - time_of_last_click[4] < double_click_time THEN
        Outcome("single", now, [time_of_last_click EXCEPT ![5] = now], FALSE, 5)
    ELSE IF now - time_of_last_click[3] < double_click_time THEN
        Outcome("single", now, [time_of_last_click EXCEPT ![4] = now], FALSE, 4)
    ELSE IF now - time_of_last_click[2] < double_click_time THEN
        Outcome("single", now, time_of_last_click, TRUE, NoClick)
    ELSE IF now - time_of_last_click[1] < double_click_time THEN
        Outcome("single", now, time_of_last_click, TRUE, NoClick)
    ELSE
        Outcome("single", now, [time_of_last_click EXCEPT ![1] = now], FALSE, 1)

\* _handle_2button_press testing slot 2 instead of slot 4.
handle_2button_press_own_slot(now) ==
    IF now - time_of_last_click[2] < double_click_time THEN
        Outcome("double", now, time_of_last_click, TRUE, NoClick)
    ELSE
        Outcome("double", now, [time_of_last_click EXCEPT ![2] = now], FALSE, 2)

\* _handle_2button_press(now): detect 2-click, otherwise eat the signal.
handle_2button_press(now) ==
    IF now - time_of_last_click[4] < double_click_time THEN
        Outcome("double", now, time_of_last_click, TRUE, NoClick)
    ELSE
        Outcome("double", now, [time_of_last_click EXCEPT ![2] = now], FALSE, 2)

\* _handle_3button_press testing slot 4 instead of slot 5.
handle_3button_press_slot4(now) ==
    IF now - time_of_last_click[4] < double_click_time THEN
        Outcome("triple", now, time_of_last_click, TRUE, NoClick)
    ELSE
        Outcome("triple", now, [time_of_last_click EXCEPT ![3] = now], FALSE, 3)

\* _handle_3button_press(now): detect 3-click, otherwise eat the signal.
handle_3button_press(now) ==
    IF now - time_of_last_click[5] < double_click_time THEN
        Outcome("triple", now, time_of_last_click, TRUE, NoClick)
    ELSE
        Outcome("triple", now, [time_of_last_click EXCEPT ![3] = now], FALSE, 3)

\* handlers_by_type[event.type](now) of _handle_button_press.
handlers_by_type(kind, now) ==
    CASE kind = "single" -> handle_1button_press(now)
      [] kind = "double" -> handle_2button_press(now)
      [] kind = "triple" -> handle_3button_press(now)

\* ------------------------------------------------------- _find_text

\* Characters: a letter, a digit, a space and the line terminator.
NL == "NL"

Letters == {"a"}

Digits == {"1"}

Chars == {"a", "1", " ", NL}

\* The patterns: SelectionOps of ClickConfigPlugin.__init__, the default
\* char_spec of _select_regex, and two patterns a user may configure.
\*   "Gedit word"   [a-zA-Z]+|[0-9]+|[^a-zA-Z0-9]+
\*   "Line"         .*
\*   "Line+"        ^.*\n   (re.M)
\*   "Python name"  [_a-zA-Z][_a-zA-Z0-9]*
\*   "char_spec"    [a-zA-Z]+
\*   "digits"       [0-9]+
\*   "end"          $
Patterns ==
    {"Gedit word", "Line", "Line+", "Python name", "char_spec", "digits", "end"}

\* The texts of at most n characters.
TextsUpTo(n) == UNION {[1..k -> Chars] : k \in 0..n}

\* The character at offset i (offsets count from 0).
CharAt(text, i) == text[i + 1]

\* Where the longest run of characters of class cls that starts at offset i
\* ends (i itself when there is none).
RunEnd(text, i, cls) ==
    CHOOSE j \in i..Len(text) :
        /\ \A k \in i..(j - 1) : CharAt(text, k) \in cls
        /\ j = Len(text) \/ CharAt(text, j) \notin cls

\* Offset i is the start of the text or follows a line terminator (^ under
\* re.M).
AtLineStart(text, i) == i = 0 \/ CharAt(text, i - 1) = NL

\* Offset i is the end of the text or precedes its final line terminator ($).
AtEnd(text, i) ==
    \/ i = Len(text)
    \/ i = Len(text) - 1 /\ CharAt(text, i) = NL

\* The end of the match re finds when it is tried at offset i exactly, as
\* the regex engine takes it (greedy); -1 when re does not match there.
MatchAt(re, text, i) ==
    LET run(cls) == RunEnd(text, i, cls)
        plus(cls) == IF run(cls) > i THEN run(cls) ELSE -1
    IN  CASE re = "char_spec" -> plus(Letters)
          [] re = "digits" -> plus(Digits)
          [] re = "Gedit word" ->
                IF plus(Letters) # -1 THEN plus(Letters)
                ELSE IF plus(Digits) # -1 THEN plus(Digits)
                ELSE plus(Chars \ (Letters \cup Digits))
          [] re = "Line" -> run(Chars \ {NL})
          [] re = "Line+" ->
                IF AtLineStart(text, i) /\ run(Chars \ {NL}) < Len(text)
                THEN run(Chars \ {NL}) + 1
                ELSE -1
          [] re = "Python name" ->
                IF i < Len(text) /\ CharAt(text, i) \in Letters
                THEN RunEnd(text, i + 1, Letters \cup Digits)
                ELSE -1
          [] re = "end" -> IF AtEnd(text, i) THEN i ELSE -1

\* word_re.search(source_text, pos): the span of the leftmost match starting
\* at or after pos (a pos beyond the text counts as its end), <<-1, -1>>
\* for None.
Search(re, text, from) ==
    LET first == IF from > Len(text) THEN Len(text) ELSE from
        starts == {i \in first..Len(text) : MatchAt(re, text, i) # -1}
    IN  IF starts = {} THEN <<-1, -1>>
        ELSE LET i == CHOOSE x \in starts : \A y \in starts : x <= y
             IN  <<i, MatchAt(re, text, i)>>

\* No call of _find_text.
NoFind ==
    /\ source_text = <<>>
    /\ pick_pos = 0
    /\ word_re = "char_spec"
    /\ pos = 0
    /\ found = FALSE
    /\ match_start = 0
    /\ match_end = 0
    /\ pc = "idle"
    /\ searches = 0
    /\ returned = <<>>

\* _find_text searching once: it returns after the first match, whether or
\* not the match contains pick_pos.
find_text_iteration_single_search ==
    /\ pc = "loop"
    /\ pos # Len(source_text)
    /\ pos <= MaxPos
    /\ searches' = searches + 1
    /\ LET match_obj == Search(word_re, source_text, pos)
       IN  IF match_obj = <<-1, -1>> THEN
               /\ pc' = "done"
               /\ UNCHANGED <<pos, found, match_start, match_end>>
           ELSE
               /\ match_start' = match_obj[1]
               /\ match_end' = match_obj[2]
               /\ found' = (match_obj[1] <= pick_pos /\ pick_pos < match_obj[2])
               /\ pc' = "done"
               /\ UNCHANGED pos
    /\ UNCHANGED <<source_text, pick_pos, word_re, returned>>
    /\ UNCHANGED <<clickVars, clock, presses, hostVars, viewVars, selectVars, eventVars>>

\* The body of _find_text's loop with the search started at pick_pos
\* instead of pos.
find_text_iteration_from_pick ==
    /\ pc = "loop"
    /\ pos # Len(source_text)
    /\ pos <= MaxPos
    /\ searches' = searches + 1
    /\ LET match_obj == Search(word_re, source_text, pick_pos)
       IN  IF match_obj = <<-1, -1>> THEN
               /\ pc' = "done"
               /\ UNCHANGED <<pos, found, match_start, match_end>>
           ELSE
               /\ match_start' = match_obj[1]
               /\ match_end' = match_obj[2]
               /\ IF match_obj[1] <= pick_pos /\ pick_pos < match_obj[2] THEN
                      /\ found' = TRUE
                      /\ pc' = "done"
                      /\ UNCHANGED pos
                  ELSE IF pick_pos < match_obj[1] THEN
                      /\ pc' = "done"
                      /\ UNCHANGED <<pos, found>>
                  ELSE
                      /\ pos' = (IF pos < match_obj[1] THEN match_obj[1] ELSE pos) + 1
                      /\ UNCHANGED <<found, pc>>
    /\ UNCHANGED <<source_text, pick_pos, word_re, returned>>
    /\ UNCHANGED <<clickVars, clock, presses, hostVars, viewVars, selectVars, eventVars>>

\* The body of _find_text's loop testing match_start <= pick_pos <= match_end.
find_text_iteration_inclusive_end ==
    /\ pc = "loop"
    /\ pos # Len(source_text)
    /\ pos <= MaxPos
    /\ searches' = searches + 1
    /\ LET match_obj == Search(word_re, source_text, pos)
       IN  IF match_obj = <<-1, -1>> THEN
               /\ pc' = "done"
               /\ UNCHANGED <<pos, found, match_start, match_end>>
           ELSE
               /\ match_start' = match_obj[1]
               /\ match_end' = match_obj[2]
               /\ IF match_obj[1] <= pick_pos /\ pick_pos <= match_obj[2] THEN
                      /\ found' = TRUE
                      /\ pc' = "done"
                      /\ UNCHANGED pos
                  ELSE IF pick_pos < match_obj[1] THEN
                      /\ pc' = "done"
                      /\ UNCHANGED <<pos, found>>
                  ELSE
                      /\ pos' = (IF pos < match_obj[1] THEN match_obj[1] ELSE pos) + 1
                      /\ UNCHANGED <<found, pc>>
    /\ UNCHANGED <<source_text, pick_pos, word_re, returned>>
    /\ UNCHANGED <<clickVars, clock, presses, hostVars, viewVars, selectVars, eventVars>>

\* One pass through the body of _find_text's loop, entered with
\* pos != len(source_text).
find_text_iteration ==
    /\ pc = "loop"
    /\ pos # Len(source_text)
    /\ pos <= MaxPos
    /\ searches' = searches + 1
    /\ LET match_obj == Search(word_re, source_text, pos)
       IN  IF match_obj = <<-1, -1>> THEN
               /\ pc' = "done"
               /\ UNCHANGED <<pos, found, match_start, match_end>>
           ELSE
               /\ match_start' = match_obj[1]
               /\ match_end' = match_obj[2]
               /\ IF match_obj[1] <= pick_pos /\ pick_pos < match_obj[2] THEN
                      /\ found' = TRUE
                      /\ pc' = "done"
                      /\ UNCHANGED pos
                  ELSE IF pick_pos < match_obj[1] THEN
                      /\ pc' = "done"
                      /\ UNCHANGED <<pos, found>>
                  ELSE
                      /\ pos' = (IF pos < match_obj[1] THEN match_obj[1] ELSE pos) + 1
                      /\ UNCHANGED <<found, pc>>
    /\ UNCHANGED <<source_text, pick_pos, word_re, returned>>
    /\ UNCHANGED <<clickVars, clock, presses, hostVars, viewVars, selectVars, eventVars>>

\* A loop that searches once more before it tests pos against
\* len(source_text).
find_text_return_search_first ==
    /\ pc = "loop"
    /\ pos = Len(source_text)
    /\ searches' = searches + 1
    /\ LET match_obj == Search(word_re, source_text, pos)
       IN  IF match_obj = <<-1, -1>> THEN
               UNCHANGED <<found, match_start, match_end>>
           ELSE
               /\ match_start' = match_obj[1]
               /\ match_end' = match_obj[2]
               /\ found' = (match_obj[1] <= pick_pos /\ pick_pos < match_obj[2])
    /\ pc' = "done"
    /\ UNCHANGED <<source_text, pick_pos, word_re, pos, returned>>
    /\ UNCHANGED <<clickVars, clock, presses, hostVars, viewVars, selectVars, eventVars>>

\* The loop test fails (pos == len(source_text)): return found, match_start,
\* match_end.
find_text_return ==
    /\ pc = "loop"
    /\ pos = Len(source_text)
    /\ pc' = "done"
    /\ UNCHANGED <<source_text, pick_pos, word_re, pos, found, match_start,
                   match_end, searches, returned>>
    /\ UNCHANGED <<clickVars, clock, presses, hostVars, viewVars, selectVars, eventVars>>

\* ------------------------------------------------------------ views

\* The views of the window: view_1 and view_2 of update_ui.
Views == {1, 2}

NoView == 0

\* The pair (handled, click) one entry point returns and the slots it
\* leaves, for a classifier whose slots are given: _handle_1button_press,
\* _handle_2button_press and _handle_3button_press on slots instead of
\* self._time_of_last_click.
own_classifier(kind, now, slots) ==
    LET holds(X) == now - slots[X] < double_click_time
        emit(L) == [handled |-> FALSE, click |-> L,
                    slots |-> [slots EXCEPT ![L] = now]]
        eat == [handled |-> TRUE, click |-> NoClick, slots |-> slots]
    IN  CASE kind = "single" ->
                IF holds(4) THEN emit(5)
                ELSE IF holds(3) THEN emit(4)
                ELSE IF holds(2) THEN eat
                ELSE IF holds(1) THEN eat
                ELSE emit(1)
          [] kind = "double" -> IF holds(4) THEN eat ELSE emit(2)
          [] kind = "triple" -> IF holds(5) THEN eat ELSE emit(3)

\* No view connected, no press in any view.
NoViews ==
    /\ mouse_handler_ids_per_view = <<>>
    /\ last_view = NoView
    /\ own_slots = [v \in Views |-> InitialSlots]
    /\ own_result = <<FALSE, NoClick>>
    /\ handler_count = [v \in Views |-> 0]
    /\ handlers_per_viewport = FALSE

\* ----------------------------------------------------------- selection

\* The ops of the configuration: the modelled patterns and an op whose
\* pattern does not compile (such as "[").
Ops == Patterns \cup {"invalid"}

\* re.compile(op.pattern, op.flags) returns a pattern object.
Compiles(op) == op \in Patterns

\* op.flags & re.MULTILINE: of the modelled ops only 'Line+' has re.M.
Multiline(op) == op = "Line+"

\* left_iter.set_line_offset(0): the offset of the start of off's line.
RECURSIVE LineStart(_, _)
LineStart(doc, off) ==
    IF off = 0 \/ CharAt(doc, off - 1) = NL THEN off
    ELSE LineStart(doc, off - 1)

\* right_iter.forward_to_line_end() unless right_iter.ends_line(): the
\* offset of the end of off's line, before its terminator.
RECURSIVE LineEnd(_, _)
LineEnd(doc, off) ==
    IF off = Len(doc) \/ CharAt(doc, off) = NL THEN off
    ELSE LineEnd(doc, off + 1)

\* start_iter.get_slice(end_iter)
Slice(doc, s, e) == SubSeq(doc, s + 1, e)

\* The op names of the configset 'Gedit built-in'.
GeditBuiltIn == <<"None", "Gedit word", "Line", "None", "None">>

\* No button_press_event so far.
NoEvents ==
    /\ op_names = GeditBuiltIn
    /\ handled = FALSE
    /\ event = [button |-> 0, kind |-> "none", before |-> InitialSlots]

\* No selection under way.
NoSelect ==
    /\ conf = "Gedit word"
    /\ document = <<>>
    /\ click_iter = 0
    /\ multiline = FALSE
    /\ selected_range = <<>>

\* ------------------------------------------------------------- Spec
\* The classifier alone: any entry point, any timestamp.

Init ==
    /\ time_of_last_click = InitialSlots
    /\ last = NoPress
    /\ recorded = {}
    /\ clock = 0
    /\ presses = <<>>
    /\ host_count = 0
    /\ pending = <<>>
    /\ click_no = 0
    /\ emitted = 0
    /\ rapid = TRUE
    /\ chain = FALSE
    /\ after_five = FALSE
    /\ NoFind
    /\ NoViews
    /\ NoSelect
    /\ NoEvents

Press1 ==
    /\ \E now \in Times : handle_1button_press(now)
    /\ UNCHANGED <<clock, presses, hostVars, findVars, viewVars, selectVars, eventVars>>

Press2 ==
    /\ \E now \in Times : handle_2button_press(now)
    /\ UNCHANGED <<clock, presses, hostVars, findVars, viewVars, selectVars, eventVars>>

Press3 ==
    /\ \E now \in Times : handle_3button_press(now)
    /\ UNCHANGED <<clock, presses, hostVars, findVars, viewVars, selectVars, eventVars>>

Next == Press1 \/ Press2 \/ Press3

Spec == Init /\ [][Next]_vars

\* ---------------------------------------------------------- SpecSeq
\* One run of presses on a new classifier, the clock never going back: the
\* first press at any time up to the interval, each further press 0 to
\* double_click_time ticks after the one before it.  The run ends with the
\* first press that does not come within the interval.

\* Every press after the first came within the interval of the one before.
RapidRun(ps) ==
    \A i \in 2..Len(ps) : ps[i].now - ps[i-1].now < double_click_time

SeqPress(kind, gap) ==
    /\ Len(presses) < MaxPresses
    /\ RapidRun(presses)
    /\ clock' = clock + gap
    /\ handlers_by_type(kind, clock')
    /\ presses' = Append(presses, [kind |-> kind, now |-> clock',
                                   click |-> last'.click])
    /\ UNCHANGED <<hostVars, findVars, viewVars, selectVars, eventVars>>

SeqNext == \E kind \in Kinds, gap \in 0..double_click_time : SeqPress(kind, gap)

SpecSeq == Init /\ [][SeqNext]_vars

\* --------------------------------------------------------- SpecHost
\* The toolkit as the event source of _handle_button_press: every physical
\* left click is delivered as a BUTTON_PRESS, the 2nd consecutive click also
\* as a _2BUTTON_PRESS and the 3rd also as a _3BUTTON_PRESS, after which the
\* count restarts.  All events of one click carry its timestamp.  The clock
\* starts past the interval and never goes back.

HostInit ==
    /\ time_of_last_click = InitialSlots
    /\ last = NoPress
    /\ recorded = {}
    /\ clock = double_click_time
    /\ presses = <<>>
    /\ host_count = 0
    /\ pending = <<>>
    /\ click_no = 0
    /\ emitted = 0
    /\ rapid = TRUE
    /\ chain = FALSE
    /\ after_five = FALSE
    /\ NoFind
    /\ NoViews
    /\ NoSelect
    /\ NoEvents

\* The events the toolkit delivers for the click that brings its count to n.
HostEvents(n) ==
    CASE n = 2 -> <<"single", "double">>
      [] n = 3 -> <<"single", "triple">>
      [] OTHER -> <<"single">>

PhysicalClick(gap) ==
    /\ pending = <<>>
    /\ click_no < MaxClicks
    /\ clock' = clock + gap
    /\ host_count' = IF click_no > 0 /\ gap < double_click_time /\ host_count < 3
                      THEN host_count + 1
                      ELSE 1
    /\ pending' = HostEvents(host_count')
    /\ click_no' = click_no + 1
    /\ emitted' = 0
    /\ rapid' = (rapid /\ (click_no = 0 \/ gap < double_click_time))
    /\ UNCHANGED <<clickVars, presses, chain, after_five, findVars, viewVars, selectVars, eventVars>>

\* _handle_button_press for the next event of the current click:
\* now = time.time(), then the entry point of the event's type.
Deliver ==
    /\ pending # <<>>
    /\ handlers_by_type(Head(pending), clock)
    /\ pending' = Tail(pending)
    /\ emitted' = emitted + (IF last'.click # NoClick THEN 1 ELSE 0)
    /\ LET cont == last.kind # "none" /\ clock - last.now < double_click_time
       IN  /\ after_five' = (cont /\ chain)
           /\ chain' = (last'.click = 5 \/ (cont /\ chain))
    /\ UNCHANGED <<clock, presses, host_count, click_no, rapid, findVars, viewVars, selectVars, eventVars>>

HostNext == (\E gap \in 0..double_click_time : PhysicalClick(gap)) \/ Deliver

SpecHost == HostInit /\ [][HostNext]_vars

\* --------------------------------------------------------- SpecFind
\* One call _find_text(source_text, pick_pos, word_re), for every text of at
\* most MaxLen characters, every offset into it and every pattern.

FindInit ==
    /\ time_of_last_click = InitialSlots
    /\ last = NoPress
    /\ recorded = {}
    /\ clock = 0
    /\ presses = <<>>
    /\ host_count = 0
    /\ pending = <<>>
    /\ click_no = 0
    /\ emitted = 0
    /\ rapid = TRUE
    /\ chain = FALSE
    /\ after_five = FALSE
    /\ source_text \in TextsUpTo(MaxLen)
    /\ pick_pos \in 0..Len(source_text)
    /\ word_re \in Patterns
    /\ pos = 0
    /\ found = FALSE
    /\ match_start = 0
    /\ match_end = 0
    /\ pc = "loop"
    /\ searches = 0
    /\ returned = <<>>
    /\ NoViews
    /\ NoSelect
    /\ NoEvents

FindNext == find_text_iteration \/ find_text_return

SpecFind == FindInit /\ [][FindNext]_vars

\* --------------------------------------------------------- SpecPure
\* Calls of _find_text with the same arguments, one after the other, and
\* presses classified while no call is running (the program has one
\* thread: an event is handled when the handler before it has returned).

PureInit ==
    /\ time_of_last_click = InitialSlots
    /\ last = NoPress
    /\ recorded = {}
    /\ clock = 0
    /\ presses = <<>>
    /\ host_count = 0
    /\ pending = <<>>
    /\ click_no = 0
    /\ emitted = 0
    /\ rapid = TRUE
    /\ chain = FALSE
    /\ after_five = FALSE
    /\ source_text \in TextsUpTo(PureLen)
    /\ pick_pos \in 0..Len(source_text)
    /\ word_re \in Patterns
    /\ pos = 0
    /\ found = FALSE
    /\ match_start = 0
    /\ match_end = 0
    /\ pc = "idle"
    /\ searches = 0
    /\ returned = <<>>
    /\ NoViews
    /\ NoSelect
    /\ NoEvents

\* An entry of _find_text that keeps pos from the call before.
find_text_call_keep_pos ==
    /\ pc \in {"idle", "done"}
    /\ returned' = IF pc = "done" THEN <<found, match_start, match_end>>
                   ELSE <<>>
    /\ found' = FALSE
    /\ match_start' = 0
    /\ match_end' = 0
    /\ searches' = 0
    /\ pc' = "loop"
    /\ UNCHANGED <<source_text, pick_pos, word_re, pos>>
    /\ UNCHANGED <<clickVars, clock, presses, hostVars, viewVars, selectVars, eventVars>>

\* _find_text(source_text, pick_pos, word_re) is entered: found = False,
\* match_start = 0, match_end = 0, pos = 0.
find_text_call ==
    /\ pc \in {"idle", "done"}
    /\ returned' = IF pc = "done" THEN <<found, match_start, match_end>>
                   ELSE <<>>
    /\ found' = FALSE
    /\ match_start' = 0
    /\ match_end' = 0
    /\ pos' = 0
    /\ searches' = 0
    /\ pc' = "loop"
    /\ UNCHANGED <<source_text, pick_pos, word_re>>
    /\ UNCHANGED <<clickVars, clock, presses, hostVars, viewVars, selectVars, eventVars>>

\* A press is classified between two calls.
PressBetweenCalls(kind, gap) ==
    /\ pc # "loop"
    /\ Len(presses) < PurePresses
    /\ clock' = clock + gap
    /\ handlers_by_type(kind, clock')
    /\ presses' = Append(presses, [kind |-> kind, now |-> clock',
                                   click |-> last'.click])
    /\ UNCHANGED <<hostVars, findVars, viewVars, selectVars, eventVars>>

PureNext ==
    \/ find_text_call
    \/ find_text_iteration
    \/ find_text_return
    \/ \E kind \in Kinds, gap \in 0..double_click_time :
            PressBetweenCalls(kind, gap)

SpecPure == PureInit /\ [][PureNext]_vars

\* -------------------------------------------------------- SpecViews
\* One window helper and the views of its window: update_ui connects
\* _handle_button_press to the views of the active tab, and presses arrive
\* in any connected view, 0 to double_click_time ticks apart.

ViewsInit ==
    /\ time_of_last_click = InitialSlots
    /\ last = NoPress
    /\ recorded = {}
    /\ clock = double_click_time
    /\ presses = <<>>
    /\ host_count = 0
    /\ pending = <<>>
    /\ click_no = 0
    /\ emitted = 0
    /\ rapid = TRUE
    /\ chain = FALSE
    /\ after_five = FALSE
    /\ NoFind
    /\ NoViews
    /\ NoSelect
    /\ NoEvents

\* _connect_view connecting the handler whether or not the view is in
\* _mouse_handler_ids_per_view.
connect_views_again(tab) ==
    LET known == DOMAIN mouse_handler_ids_per_view
        total == Cardinality(known)
        new_id(v) == total + Cardinality({w \in tab : w <= v})
    IN  /\ mouse_handler_ids_per_view' =
               [v \in known \cup tab |->
                   IF v \in tab THEN new_id(v)
                   ELSE mouse_handler_ids_per_view[v]]
        /\ handler_count' =
               [v \in Views |->
                   IF v \in tab THEN handler_count[v] + 1
                   ELSE handler_count[v]]

\* _connect_view for each view of the tab: _connect_mouse_handler connects
\* the handler to a view that is not in _mouse_handler_ids_per_view and
\* records the id view.connect returns.
connect_views(tab) ==
    LET known == DOMAIN mouse_handler_ids_per_view
        new_id(v) == Cardinality(known)
                         + Cardinality({w \in tab \ known : w <= v})
    IN  /\ mouse_handler_ids_per_view' =
               [v \in known \cup tab |->
                   IF v \in known THEN mouse_handler_ids_per_view[v]
                   ELSE new_id(v)]
        /\ handler_count' =
               [v \in Views |->
                   IF v \in tab \ known THEN handler_count[v] + 1
                   ELSE handler_count[v]]

\* update_ui for an active tab that shows the views tab.
update_ui(tab) ==
    /\ connect_views(tab)
    /\ UNCHANGED <<last_view, own_slots, own_result, handlers_per_viewport>>
    /\ UNCHANGED <<clickVars, clock, presses, hostVars, findVars, selectVars,
                   eventVars>>

\* on_scrollwin_add(scrollwin, widget, window): for a Viewport that has its
\* Vbox, update_ui; for a Viewport without it, connect on_viewport_add; for
\* another widget, nothing.
on_scrollwin_add(widget, tab) ==
    /\ IF widget = "Viewport" THEN
           /\ connect_views(tab)
           /\ UNCHANGED handlers_per_viewport
       ELSE IF widget = "Viewport without Vbox" THEN
           /\ handlers_per_viewport' = TRUE
           /\ UNCHANGED <<mouse_handler_ids_per_view, handler_count>>
       ELSE
           UNCHANGED <<mouse_handler_ids_per_view, handler_count,
                       handlers_per_viewport>>
    /\ UNCHANGED <<last_view, own_slots, own_result>>
    /\ UNCHANGED <<clickVars, clock, presses, hostVars, findVars, selectVars,
                   eventVars>>

\* on_viewport_add(viewport, widget, window): disconnect itself, then
\* update_ui.
on_viewport_add(tab) ==
    /\ handlers_per_viewport
    /\ handlers_per_viewport' = FALSE
    /\ connect_views(tab)
    /\ UNCHANGED <<last_view, own_slots, own_result>>
    /\ UNCHANGED <<clickVars, clock, presses, hostVars, findVars, selectVars,
                   eventVars>>

\* A button_press_event of a connected view: _handle_button_press(view,
\* event) with event.button == 1, now = time.time(), then the entry point
\* of the event's type.
ViewPress(view, kind, gap) ==
    /\ view \in DOMAIN mouse_handler_ids_per_view
    /\ Len(presses) < ViewPresses
    /\ clock' = clock + gap
    /\ handlers_by_type(kind, clock')
    /\ presses' = Append(presses, [kind |-> kind, now |-> clock',
                                   click |-> last'.click])
    /\ last_view' = view
    /\ LET own == own_classifier(kind, clock', own_slots[view])
       IN  /\ own_slots' = [own_slots EXCEPT ![view] = own.slots]
           /\ own_result' = <<own.handled, own.click>>
    /\ UNCHANGED <<mouse_handler_ids_per_view, handler_count,
                   handlers_per_viewport>>
    /\ UNCHANGED <<hostVars, findVars, selectVars, eventVars>>

ViewsNext ==
    \/ \E tab \in (SUBSET Views) \ {{}} : update_ui(tab)
    \/ \E widget \in {"View", "Viewport", "Viewport without Vbox"},
          tab \in (SUBSET Views) \ {{}} : on_scrollwin_add(widget, tab)
    \/ \E tab \in (SUBSET Views) \ {{}} : on_viewport_add(tab)
    \/ \E view \in Views, kind \in Kinds, gap \in 0..double_click_time :
            ViewPress(view, kind, gap)

SpecViews == ViewsInit /\ [][ViewsNext]_vars

\* ------------------------------------------------------- SpecSelect
\* Selections on one document: the configuration is replaced between
\* selections, _select_regex is called for a click at any offset of the
\* document, _find_text runs step by step and the range is selected.

SelectInit ==
    /\ time_of_last_click = InitialSlots
    /\ last = NoPress
    /\ recorded = {}
    /\ clock = 0
    /\ presses = <<>>
    /\ host_count = 0
    /\ pending = <<>>
    /\ click_no = 0
    /\ emitted = 0
    /\ rapid = TRUE
    /\ chain = FALSE
    /\ after_five = FALSE
    /\ NoFind
    /\ NoViews
    /\ conf = "Gedit word"
    /\ document \in TextsUpTo(DocLen)
    /\ click_iter = 0
    /\ multiline = FALSE
    /\ selected_range = <<>>
    /\ NoEvents

\* update_configuration(conf): adopt the provided configuration.
update_configuration(op) ==
    /\ pc \in {"idle", "returned", "raised"}
    /\ conf' = op
    /\ UNCHANGED <<document, click_iter, multiline, selected_range>>
    /\ UNCHANGED <<clickVars, clock, presses, hostVars, findVars, viewVars,
                   eventVars>>

\* _select_regex always taking the single-line branch.
select_regex_single_line_only(off) ==
    /\ pc \in {"idle", "returned", "raised"}
    /\ click_iter' = off
    /\ selected_range' = <<>>
    /\ IF ~Compiles(conf) THEN
           /\ pc' = "raised"
           /\ UNCHANGED <<source_text, pick_pos, word_re, pos, found,
                          match_start, match_end, searches, multiline>>
       ELSE
           /\ word_re' = conf
           /\ multiline' = FALSE
           /\ source_text' = Slice(document, LineStart(document, off),
                                   LineEnd(document, off))
           /\ pick_pos' = off - LineStart(document, off)
           /\ found' = FALSE
           /\ match_start' = 0
           /\ match_end' = 0
           /\ pos' = 0
           /\ searches' = 0
           /\ pc' = "loop"
    /\ UNCHANGED <<conf, document, returned>>
    /\ UNCHANGED <<clickVars, clock, presses, hostVars, viewVars, eventVars>>

\* _select_regex(op, click_iter) for a click at offset off, up to the entry
\* of _find_text: word_re = re.compile(char_spec, flags), then
\* _select_multiple_line_regex or _select_single_line_regex prepares
\* source_text and pick_pos.
enter_select_regex(op, off) ==
    /\ click_iter' = off
    /\ selected_range' = <<>>
    /\ IF ~Compiles(op) THEN
           /\ pc' = "raised"
           /\ UNCHANGED <<source_text, pick_pos, word_re, pos, found,
                          match_start, match_end, searches, multiline>>
       ELSE
           /\ word_re' = op
           /\ multiline' = Multiline(op)
           /\ IF Multiline(op) THEN
                  /\ source_text' = Slice(document, 0, Len(document))
                  /\ pick_pos' = off
              ELSE
                  /\ source_text' = Slice(document, LineStart(document, off),
                                          LineEnd(document, off))
                  /\ pick_pos' = off - LineStart(document, off)
           /\ found' = FALSE
           /\ match_start' = 0
           /\ match_end' = 0
           /\ pos' = 0
           /\ searches' = 0
           /\ pc' = "loop"

\* _select_regex called for the op of the configuration, with the click (or
\* the insert mark) at offset off.
select_regex(off) ==
    /\ pc \in {"idle", "returned", "raised"}
    /\ enter_select_regex(conf, off)
    /\ UNCHANGED <<conf, document, returned>>
    /\ UNCHANGED <<clickVars, clock, presses, hostVars, viewVars, eventVars>>

\* _find_text has returned: if found, doc.select_range with iters set by
\* set_offset (multi-line) or set_line_offset on click_iter's line; found is
\* returned (by _select_regex, and as acted and handled by its callers).
select_range ==
    /\ pc = "done"
    /\ selected_range' =
           IF ~found THEN <<>>
           ELSE IF multiline THEN <<match_start, match_end>>
           ELSE <<LineStart(document, click_iter) + match_start,
                  LineStart(document, click_iter) + match_end>>
    /\ handled' = found
    /\ pc' = "returned"
    /\ UNCHANGED <<source_text, pick_pos, word_re, pos, found, match_start,
                   match_end, searches, returned>>
    /\ UNCHANGED <<conf, document, click_iter, multiline>>
    /\ UNCHANGED <<clickVars, clock, presses, hostVars, viewVars, op_names,
                   event>>

SelectNext ==
    \/ \E op \in Ops : update_configuration(op)
    \/ \E off \in 0..Len(document) : select_regex(off)
    \/ find_text_iteration
    \/ find_text_return
    \/ select_range

SpecSelect == SelectInit /\ [][SelectNext]_vars

\* -------------------------------------------------------- SpecPress
\* Button press events on one document: _handle_button_press as a whole,
\* from the test of event.button to the value it returns, for a
\* configset that assigns an op name to every click level.

Buttons == {1, 3}

\* Configsets: 'Gedit built-in', and custom ones with any op for the
\* single click.
ConfigSets ==
    {GeditBuiltIn}
        \cup {<<op, "Gedit word", "Python name", "Line+", "None">> : op \in Ops}

PressInit ==
    /\ time_of_last_click = InitialSlots
    /\ last = NoPress
    /\ recorded = {}
    /\ clock = double_click_time
    /\ presses = <<>>
    /\ host_count = 0
    /\ pending = <<>>
    /\ click_no = 0
    /\ emitted = 0
    /\ rapid = TRUE
    /\ chain = FALSE
    /\ after_five = FALSE
    /\ NoFind
    /\ NoViews
    /\ conf = "Gedit word"
    /\ document \in TextsUpTo(EventLen)
    /\ click_iter = 0
    /\ multiline = FALSE
    /\ selected_range = <<>>
    /\ op_names \in ConfigSets
    /\ handled = FALSE
    /\ event = [button |-> 0, kind |-> "none", before |-> InitialSlots]

\* The handler returns without a selection.
return_handled(value) ==
    /\ handled' = value
    /\ pc' = "returned"
    /\ selected_range' = <<>>
    /\ UNCHANGED <<source_text, pick_pos, word_re, pos, found, match_start,
                   match_end, searches, multiline, click_iter>>

\* _make_assigned_selection returning True for the op 'None'.
make_assigned_selection_none_acts(click, off) ==
    IF op_names[click] # "None"
    THEN enter_select_regex(op_names[click], off) /\ UNCHANGED handled
    ELSE return_handled(TRUE)

\* _make_assigned_selection(click, click_iter): acted = False unless the op
\* of the click is not 'None'; then _select_regex.
make_assigned_selection(click, off) ==
    IF op_names[click] # "None"
    THEN enter_select_regex(op_names[click], off) /\ UNCHANGED handled
    ELSE return_handled(FALSE)

\* A test of the button that lets every button pass.
left_button_or_other(button) == button \in Buttons

\* event.button == 1
left_button(button) == button = 1

\* _handle_button_press(view, event) for an event of the given button and
\* type at offset off of the document, gap ticks after the last one.
handle_button_press(button, kind, gap, off) ==
    /\ pc \in {"idle", "returned", "raised"}
    /\ Len(presses) < EventPresses
    /\ clock' = clock + gap
    /\ presses' = Append(presses, [button |-> button])
    /\ event' = [button |-> button, kind |-> kind,
                 before |-> time_of_last_click]
    /\ IF left_button(button) THEN
           /\ handlers_by_type(kind, clock')
           /\ IF last'.click # NoClick
              THEN make_assigned_selection(last'.click, off)
              ELSE return_handled(last'.handled)
       ELSE
           /\ return_handled(FALSE)
           /\ UNCHANGED clickVars
    /\ UNCHANGED <<conf, document, returned, op_names>>
    /\ UNCHANGED <<hostVars, viewVars>>

PressNext ==
    \/ \E button \in Buttons, kind \in Kinds, gap \in 0..double_click_time,
          off \in 0..Len(document) : handle_button_press(button, kind, gap, off)
    \/ find_text_iteration
    \/ find_text_return
    \/ select_range

SpecPress == PressInit /\ [][PressNext]_vars

\* ------------------------------------------------- the classifier's claims

\* The check "now - slot[X] < max_interval" of the last press, on the slots
\* it found.
CheckHolds(X) == last.now - last.before[X] < double_click_time

\* The last press emitted level L and recorded its timestamp in slot L.
Emits(L) ==
    /\ last.click = L
    /\ time_of_last_click[L] = last.now

\* The last press was suppressed: no level, no slot written.
Suppresses ==
    /\ last.click = NoClick
    /\ last.handled
    /\ time_of_last_click = last.before

\* The multiplicities 1..4 whose check held for the last press.
Holding == {X \in 1..4 : CheckHolds(X)}

Longest == CHOOSE X \in Holding : \A Y \in Holding : Y <= X

\* C1: a single press acts on the first check that holds in the order
\* X = 4, 3, 2, 1 (the longest multiplicity wins): X=4 emits level 5 into
\* slot 5, X=3 emits level 4 into slot 4, X=2 and X=1 suppress, and with no
\* check holding it emits level 1 into slot 1.
C1_CheckOrder ==
    last.kind = "single" =>
        IF Holding = {} THEN Emits(1)
        ELSE IF Longest = 4 THEN Emits(5)
        ELSE IF Longest = 3 THEN Emits(4)
        ELSE Suppresses

\* A single press for which the checks of slots 4, 3 and 1 held at once, and
\* which was classified by the longest.
C1_Witness ==
    /\ last.kind = "single"
    /\ {1, 3, 4} \subseteq Holding \cap last.recorded
    /\ last.now >= double_click_time
    /\ last.click = 5

\* C2: a double press is suppressed exactly when now - slot[4] <
\* max_interval; otherwise it emits level 2 into slot 2, whatever the other
\* slots hold.
C2_DoubleOnSlot4 ==
    last.kind = "double" =>
        IF CheckHolds(4) THEN Suppresses ELSE Emits(2)

\* A double press that emitted level 2 although the checks of slots 1, 2, 3
\* and 5 all held.
C2_Witness ==
    /\ last.kind = "double"
    /\ last.click = 2
    /\ last.recorded = Levels
    /\ \A X \in {1, 2, 3, 5} : CheckHolds(X)

\* C3: a triple press is suppressed exactly when now - slot[5] <
\* max_interval; otherwise it emits level 3 into slot 3, whatever slots 1 to
\* 4 hold.
C3_TripleOnSlot5 ==
    last.kind = "triple" =>
        IF CheckHolds(5) THEN Suppresses ELSE Emits(3)

\* A triple press that emitted level 3 although the checks of slots 1 to 4
\* all held.
C3_Witness ==
    /\ last.kind = "triple"
    /\ last.click = 3
    /\ last.recorded = Levels
    /\ \A X \in 1..4 : CheckHolds(X)

\* C5: on a classifier on which no click has been recorded yet, a single
\* press emits level 1, a double press level 2 and a triple press level 3,
\* whatever the timestamp.
C5_SentinelOutside ==
    (last.kind # "none" /\ last.recorded = {}) =>
        /\ last.kind = "single" => Emits(1)
        /\ last.kind = "double" => Emits(2)
        /\ last.kind = "triple" => Emits(3)

\* C6: when the timestamp of a single press is earlier than every recorded
\* click time, every interval check against the recorded times fails and the
\* press is a fresh single click or suppressed, never level 4 or 5.  (Stated
\* for timestamps of at least max_interval, where the slots never written
\* play no part.)
C6_ClockWentBackward ==
    (/\ last.kind = "single"
     /\ last.now >= double_click_time
     /\ last.recorded # {}
     /\ \A X \in last.recorded : last.now < last.before[X]) =>
        /\ \A X \in last.recorded : ~CheckHolds(X)
        /\ last.click \in {NoClick, 1}

\* ------------------------------------------- claims about runs of presses

\* The run starts with presses of the kinds ks.
StartsWith(ks) ==
    /\ Len(presses) >= Len(ks)
    /\ \A i \in 1..Len(ks) : presses[i].kind = ks[i]

\* The first Len(ls) presses of the run were classified ls (NoClick: suppressed).
LevelsAre(ls) == \A i \in 1..Len(ls) : presses[i].click = ls[i]

\* The run is on a new classifier whose first press has a timestamp of at
\* least max_interval, every further press within the interval of the one
\* before it.
RapidFromNew ==
    /\ presses # <<>>
    /\ presses[1].now >= double_click_time
    /\ RapidRun(presses)

\* C4: of the events the toolkit delivers for one physical click of a rapid
\* sequence, at most one emits a click level.
C4_MutualExclusion == rapid => emitted <= 1

\* C7: once level 5 has been emitted, every further press that comes within
\* max_interval of the press before it is suppressed.
C7_SextupleSuppressed == after_five => Suppresses

C9_ThirdOfTriple ==
    (RapidRun(presses) /\ StartsWith(<<"single", "double", "single">>))
        => LevelsAre(<<1, 2, NoClick>>)

\* ---------------------------------------------------- claims on _find_text

\* text[s..e) is a match of re in text: the characters are what the pattern
\* describes, where its anchors allow them (whether or not a search would
\* reach it).
IsMatch(re, text, s, e) ==
    LET all(cls) == \A k \in s..(e - 1) : CharAt(text, k) \in cls
    IN  /\ 0 <= s /\ s <= e /\ e <= Len(text)
        /\ CASE re = "char_spec" -> s < e /\ all(Letters)
             [] re = "digits" -> s < e /\ all(Digits)
             [] re = "Gedit word" ->
                   s < e /\ (\/ all(Letters)
                             \/ all(Digits)
                             \/ all(Chars \ (Letters \cup Digits)))
             [] re = "Line" -> all(Chars \ {NL})
             [] re = "Line+" ->
                   /\ s < e
                   /\ AtLineStart(text, s)
                   /\ CharAt(text, e - 1) = NL
                   /\ \A k \in s..(e - 2) : CharAt(text, k) # NL
             [] re = "Python name" ->
                   /\ s < e
                   /\ CharAt(text, s) \in Letters
                   /\ all(Letters \cup Digits)
             [] re = "end" -> s = e /\ AtEnd(text, s)

\* Some match of re in text contains offset p.
SomeMatchContains(re, text, p) ==
    \E s \in 0..Len(text), e \in 0..Len(text) :
        IsMatch(re, text, s, e) /\ s <= p /\ p < e

\* C10: when _find_text returns found, (match_start, match_end) is the span
\* of a match of the pattern in the text and match_start <= pick_pos <
\* match_end; so when no match of the pattern contains pick_pos it returns
\* not found.
C10_FindTextSound ==
    pc = "done" =>
        /\ found => /\ IsMatch(word_re, source_text, match_start, match_end)
                    /\ match_start <= pick_pos
                    /\ pick_pos < match_end
        /\ ~SomeMatchContains(word_re, source_text, pick_pos) => ~found

\* A call that returned found after passing over an earlier match, the span
\* ending at the end of the text.
C10_Witness ==
    /\ pc = "done"
    /\ found
    /\ pos > 0
    /\ match_start > 0
    /\ match_end = Len(source_text)

\* The spans that contain offset p among the matches the pattern's
\* left-to-right search returns when started at a position s <= p.
SearchesContaining(re, text, p) ==
    {m \in {Search(re, text, s) : s \in 0..p} :
        m # <<-1, -1>> /\ m[1] <= p /\ p < m[2]}

\* C11: when the search started at some position s <= pick_pos returns a
\* match that contains pick_pos, _find_text returns found, with the span of
\* smallest start among those matches; and when it stops at a match with
\* match_start > pick_pos, no such match exists.  While such a match exists
\* and the call has not returned, pos has not passed pick_pos.
C11_FindTextComplete ==
    LET ms == SearchesContaining(word_re, source_text, pick_pos)
    IN  /\ (pc = "loop" /\ ms # {}) => pos <= pick_pos
        /\ (pc = "done" /\ ms # {}) =>
                /\ found
                /\ <<match_start, match_end>> \in ms
                /\ \A m \in ms : match_start <= m[1]
        /\ (pc = "done" /\ ~found /\ match_start > pick_pos) => ms = {}

\* A call that returned the match containing pick_pos after two searches
\* that returned matches before it.
C11_Witness ==
    /\ pc = "done"
    /\ found
    /\ searches >= 3
    /\ SearchesContaining(word_re, source_text, pick_pos) # {}
    /\ Search(word_re, source_text, 0)[2] <= pick_pos

\* C12: _find_text terminates for every text, pick_pos and pattern: a call
\* that has not returned can take its next step.  The loop is left only by
\* a break or at pos = len(source_text), and pos never decreases, so a call
\* whose pos has passed MaxPos (> MaxLen) is followed no further.
C12_Terminates ==
    pc = "done" \/ ENABLED FindNext

\* C13: at every evaluation of the loop condition 0 <= pos <=
\* len(source_text), and pos is strictly greater than at the previous
\* evaluation.
C13_LoopInvariant ==
    /\ [](pc = "loop" => (0 <= pos /\ pos <= Len(source_text)))
    /\ [][(pc = "loop" /\ pc' = "loop") => pos' > pos]_vars

\* The character class of a pattern of the form "one or more characters of
\* class C".
ClassOf(re) == IF re = "char_spec" THEN Letters ELSE Digits

\* <<s, e>> is the maximal run of characters of class cls around offset p:
\* every character of [s, e) is in cls, p is one of them, and the run can be
\* extended neither to the left nor to the right.
IsMaximalRun(text, p, cls, s, e) ==
    /\ 0 <= s /\ s <= p /\ p < e /\ e <= Len(text)
    /\ \A k \in s..(e - 1) : CharAt(text, k) \in cls
    /\ s = 0 \/ CharAt(text, s - 1) \notin cls
    /\ e = Len(text) \/ CharAt(text, e) \notin cls

\* C17: for a pattern "one or more characters of class C" and an offset
\* pick_pos < len(source_text), _find_text returns; it returns found with
\* the maximal run of class-C characters around pick_pos when the character
\* at pick_pos is in C, and not found when it is not.
C17_ClassRun ==
    (word_re \in {"char_spec", "digits"} /\ pick_pos < Len(source_text)) =>
        /\ pc = "loop" => pos <= Len(source_text)
        /\ pc = "done" =>
            IF CharAt(source_text, pick_pos) \in ClassOf(word_re)
            THEN /\ found
                 /\ IsMaximalRun(source_text, pick_pos, ClassOf(word_re),
                                 match_start, match_end)
            ELSE ~found

\* A click inside the second run of the text, behind the run's first
\* character.
C17_Witness ==
    /\ word_re \in {"char_spec", "digits"}
    /\ pc = "done"
    /\ found
    /\ searches >= 2
    /\ match_start < pick_pos
    /\ pick_pos < Len(source_text)

\* Every line of the text ends with a line terminator.
EveryLineTerminated(text) ==
    Len(text) > 0 /\ CharAt(text, Len(text) - 1) = NL

\* [s, e) is the line of the text that holds offset p, its terminator
\* included: it starts at the start of the text or behind a terminator, its
\* last character is the first terminator at or behind p.
IsLineWithTerminator(text, p, s, e) ==
    /\ 0 <= s /\ s <= p /\ p < e /\ e <= Len(text)
    /\ s = 0 \/ CharAt(text, s - 1) = NL
    /\ CharAt(text, e - 1) = NL
    /\ \A k \in s..(e - 2) : CharAt(text, k) # NL

\* C18: with the pattern ^.*\n (re.M) on a text whose every line ends with
\* a terminator and pick_pos on a character of line k or on its terminator,
\* _find_text returns found with exactly line k, terminator included.
C18_WholeLine ==
    (/\ word_re = "Line+"
     /\ EveryLineTerminated(source_text)
     /\ pick_pos < Len(source_text)) =>
        /\ pc = "loop" => pos <= pick_pos
        /\ pc = "done" =>
            /\ found
            /\ IsLineWithTerminator(source_text, pick_pos,
                                    match_start, match_end)

\* A click on the terminator of a line that is not the first one and is not
\* empty.
C18_Witness ==
    /\ word_re = "Line+"
    /\ EveryLineTerminated(source_text)
    /\ pc = "done"
    /\ found
    /\ 0 < match_start
    /\ match_start < pick_pos
    /\ pick_pos = match_end - 1

\* C19: for the empty text _find_text returns not found at once, whatever
\* the pattern: the first loop test fails, word_re.search is never called
\* and the returned span is the initial (0, 0).
C19_EmptyText ==
    Len(source_text) = 0 =>
        /\ searches = 0
        /\ ~found
        /\ pc = "loop" => ENABLED find_text_return
        /\ pc = "done" => (match_start = 0 /\ match_end = 0)

\* A call on the empty text with a pattern that matches the empty string
\* has returned.
C19_Witness ==
    /\ Len(source_text) = 0
    /\ word_re \in {"end", "Line"}
    /\ MatchAt(word_re, source_text, 0) = 0
    /\ pc = "done"

\* C20: a call of _find_text returns what the call before it returned for
\* the same source_text, pick_pos and word_re, whatever presses were
\* classified in between, and no step of a call changes the slots.
C20_Pure ==
    /\ []((pc = "done" /\ returned # <<>>) =>
            <<found, match_start, match_end>> = returned)
    /\ [][pc = "loop" => time_of_last_click' = time_of_last_click]_vars

\* A second call has returned, after the loop had run twice, and a press
\* had written a slot before it.
C20_Witness ==
    /\ pc = "done"
    /\ returned # <<>>
    /\ searches >= 2
    /\ time_of_last_click # InitialSlots

\* C14: the classification of a press in a view depends only on the earlier
\* presses in that view: the pair (handled, click) the code returns for the
\* press is the pair a classifier returns that has seen the presses of this
\* view only.
C14_PerViewIndependence ==
    last_view # NoView => <<last.handled, last.click>> = own_result

\* [s, e) is the line of doc that holds offset off, without its terminator.
IsLineOf(doc, off, s, e) ==
    /\ 0 <= s /\ s <= off /\ off <= e /\ e <= Len(doc)
    /\ s = 0 \/ CharAt(doc, s - 1) = NL
    /\ e = Len(doc) \/ CharAt(doc, e) = NL
    /\ \A k \in s..(e - 1) : CharAt(doc, k) # NL

\* C15: for an op with the multi-line flag _find_text runs on the whole
\* document with the document offset of the click and the range selected is
\* [match_start, match_end) in document offsets; for an op without it
\* _find_text runs on the clicked line without its terminator with the
\* offset of the click in the line, and the range selected is the line's
\* start plus [match_start, match_end), inside the clicked line.
C15_SelectDispatch ==
    pc \in {"loop", "done", "returned"} =>
        IF Multiline(word_re) THEN
            /\ source_text = document
            /\ pick_pos = click_iter
            /\ (pc = "returned" /\ found) =>
                   selected_range = <<match_start, match_end>>
        ELSE
            \E s \in 0..Len(document), e \in 0..Len(document) :
                /\ IsLineOf(document, click_iter, s, e)
                /\ source_text = SubSeq(document, s + 1, e)
                /\ pick_pos = click_iter - s
                /\ (pc = "returned" /\ found) =>
                       /\ selected_range = <<s + match_start, s + match_end>>
                       /\ s <= selected_range[1]
                       /\ selected_range[2] <= e

\* A single-line selection in a line that is not the first one, of a match
\* that does not start the line.
C15_Witness ==
    /\ pc = "returned"
    /\ ~Multiline(word_re)
    /\ found
    /\ match_start > 0
    /\ selected_range[1] > match_start

\* C16: after any sequence of configuration updates no selection fails with
\* a pattern-compilation error.
C16_NoCompileErrorAtMatchTime ==
    pc # "raised"

\* -------------------------------------------- claims on the slots and levels

\* C21: a slot whose level no press has emitted holds the initial value; a
\* press that is suppressed leaves every slot as it was, and a press that
\* emits level L writes its timestamp to slot L and leaves the other slots
\* as they were (so slot L holds the timestamp of the last press that
\* emitted L).
C21_SlotInvariant ==
    /\ \A L \in Levels :
           L \notin recorded => time_of_last_click[L] = InitialSlots[L]
    /\ last.kind # "none" =>
           IF last.click = NoClick
           THEN time_of_last_click = last.before
           ELSE time_of_last_click =
                    [last.before EXCEPT ![last.click] = last.now]

\* A press emitted a level whose slot held an earlier timestamp, and
\* another slot holds a timestamp too.
C21_Witness ==
    /\ last.click # NoClick
    /\ last.click \in last.recorded
    /\ last.before[last.click] >= double_click_time
    /\ last.before[last.click] # last.now
    /\ \E L \in Levels \ {last.click} : time_of_last_click[L] # 0

\* C22: a single press emits level 5 only if an earlier press emitted level 4
\* and less than the interval has passed since the last such press, and
\* level 4 only if the same holds of level 3; level 2 is emitted only by a
\* double press and level 3 only by a triple press.
C22_LevelOrder ==
    /\ (last.kind = "single" /\ last.click \in {4, 5}) =>
           /\ (last.click - 1) \in last.recorded
           /\ last.now - last.before[last.click - 1] < double_click_time
    /\ last.click = 2 => last.kind = "double"
    /\ last.click = 3 => last.kind = "triple"

\* ------------------------------------------------- claims on press events

\* C25: after any sequence of update_ui, on_scrollwin_add and
\* on_viewport_add every view has at most one button-press handler, the
\* one recorded in _mouse_handler_ids_per_view, so a press delivered to a
\* view runs _handle_button_press once.
C25_OneHandlerPerView ==
    \A v \in Views :
        /\ handler_count[v] <= 1
        /\ handler_count[v] = 1 <=> v \in DOMAIN mouse_handler_ids_per_view

\* Both views are connected, on_viewport_add has run, and a press has been
\* classified since.
C25_Witness ==
    /\ DOMAIN mouse_handler_ids_per_view = Views
    /\ \A v \in Views : handler_count[v] = 1
    /\ mouse_handler_ids_per_view[1] # mouse_handler_ids_per_view[2]
    /\ last_view # NoView
    /\ ~handlers_per_viewport

\* C23: when the handler of a left-button press has returned: if the
\* classifier suppressed the press, the event is consumed and nothing is
\* selected; if it emitted a level whose op is 'None', nothing is selected
\* and the event is not consumed; otherwise the event is consumed and a
\* range selected exactly when _find_text returned found.
C23_PressOutcome ==
    (pc = "returned" /\ event.button = 1) =>
        IF last.click = NoClick THEN
            /\ last.handled
            /\ handled
            /\ selected_range = <<>>
        ELSE IF op_names[last.click] = "None" THEN
            /\ ~handled
            /\ selected_range = <<>>
        ELSE
            /\ handled <=> found
            /\ found => (selected_range # <<>> /\ word_re = op_names[last.click])
            /\ ~found => selected_range = <<>>

\* A left press emitted a level with an op, the op's pattern matched at the
\* click and the event was consumed.
C23_Witness ==
    /\ pc = "returned"
    /\ event.button = 1
    /\ last.click # NoClick
    /\ op_names[last.click] # "None"
    /\ found
    /\ handled
    /\ selected_range # <<>>

\* C24: a press of a button other than the left one leaves the five slots
\* as they were, selects nothing and is not consumed, whatever its type and
\* timestamp.
C24_OtherButton ==
    (pc = "returned" /\ event.kind # "none" /\ event.button # 1) =>
        /\ time_of_last_click = event.before
        /\ selected_range = <<>>
        /\ ~handled

\* A double-press event of another button has returned, after a left press
\* that wrote a slot and whose timestamp is within the interval.
C24_Witness ==
    /\ pc = "returned"
    /\ event.button # 1
    /\ event.kind = "double"
    /\ time_of_last_click # InitialSlots
    /\ clock - last.now < double_click_time

====
